---- MODULE Spec2Model ----
(***************************************************************************)
(* Model of the bus-filter Lambda handler (dist/lambda/bus-filter.js and   *)
(* its TypeScript source): environment validation, route-file loading,     *)
(* upstream fetch, filter stage, enrich stage and response.                *)
(*                                                                         *)
(* Texts are sequences of one-character strings so that trim, split and    *)
(* parseFloat are computed on the characters.  JavaScript numbers are      *)
(* records [k, v]: k = "num" (v an integer), "nan", "inf", "ninf"; the     *)
(* kind "null" is JavaScript null where a field is number-or-null.         *)
(***************************************************************************)
EXTENDS Integers, Sequences, FiniteSets, TLC

\* ---------------------------------------------------------------- bounds
MaxFeed == 2
MaxPoints == 2

\* ------------------------------------------------------- JavaScript values
Num(n) == [k |-> "num", v |-> n]
NaN == [k |-> "nan", v |-> 0]
PosInf == [k |-> "inf", v |-> 0]
NegInf == [k |-> "ninf", v |-> 0]
Null == [k |-> "null", v |-> 0]

isNaN(x) == x.k = "nan"

IsFiniteNum(x) == x.k = "num"

\* a > b on JavaScript numbers: false as soon as one side is NaN
Gt(a, b) ==
  CASE a.k = "nan" \/ b.k = "nan" -> FALSE
    [] a.k = "inf" -> b.k # "inf"
    [] a.k = "ninf" -> FALSE
    [] b.k = "inf" -> FALSE
    [] b.k = "ninf" -> TRUE
    [] OTHER -> a.v > b.v

\* ------------------------------------------------------------------ texts
Digits == {"0", "1", "2", "3", "4", "5", "6", "7", "8", "9"}

DigitVal == "0" :> 0 @@ "1" :> 1 @@ "2" :> 2 @@ "3" :> 3 @@ "4" :> 4 @@
            "5" :> 5 @@ "6" :> 6 @@ "7" :> 7 @@ "8" :> 8 @@ "9" :> 9

WhiteSpace == {" "}

InfinityText == <<"I", "n", "f", "i", "n", "i", "t", "y">>

RECURSIVE TrimStart(_)
TrimStart(s) ==
  IF s # <<>> /\ Head(s) \in WhiteSpace THEN TrimStart(Tail(s)) ELSE s

RECURSIVE TrimEnd(_)
TrimEnd(s) ==
  IF s # <<>> /\ s[Len(s)] \in WhiteSpace
  THEN TrimEnd(SubSeq(s, 1, Len(s) - 1)) ELSE s

\* String.prototype.trim
Trim(s) == TrimEnd(TrimStart(s))

IsPrefix(p, s) == Len(p) <= Len(s) /\ SubSeq(s, 1, Len(p)) = p

RECURSIVE DigitPrefix(_)
DigitPrefix(s) ==
  IF s # <<>> /\ Head(s) \in Digits
  THEN <<Head(s)>> \o DigitPrefix(Tail(s)) ELSE <<>>

RECURSIVE DigitsValue(_)
DigitsValue(ds) ==
  IF ds = <<>> THEN 0
  ELSE 10 * DigitsValue(SubSeq(ds, 1, Len(ds) - 1)) + DigitVal[ds[Len(ds)]]

\* parseFloat on texts over the alphabet used here (no fraction, no
\* exponent): leading white space skipped, optional sign, "Infinity" or a
\* digit prefix; anything after the prefix is ignored; no prefix gives NaN.
parseFloat(t) ==
  LET s == TrimStart(t)
      signed == s # <<>> /\ Head(s) \in {"-", "+"}
      neg == s # <<>> /\ Head(s) = "-"
      rest == IF signed THEN Tail(s) ELSE s
      ds == DigitPrefix(rest)
  IN IF IsPrefix(InfinityText, rest) THEN (IF neg THEN NegInf ELSE PosInf)
     ELSE IF ds = <<>> THEN NaN
     ELSE Num(IF neg THEN 0 - DigitsValue(ds) ELSE DigitsValue(ds))

RECURSIVE NatToText(_)
NatToText(n) ==
  LET d == CHOOSE c \in Digits : DigitVal[c] = n % 10
  IN IF n < 10 THEN <<d>> ELSE NatToText(n \div 10) \o <<d>>

\* Number-to-string conversion of a template literal
NumToText(x) ==
  CASE x.k = "nan" -> <<"N", "a", "N">>
    [] x.k = "inf" -> InfinityText
    [] x.k = "ninf" -> <<"-">> \o InfinityText
    [] x.k = "num" /\ x.v < 0 -> <<"-">> \o NatToText(0 - x.v)
    [] OTHER -> NatToText(x.v)

\* ------------------------------------------- environment variable parsing
RECURSIVE RemoveBrackets(_)
RemoveBrackets(s) ==
  IF s = <<>> THEN <<>>
  ELSE IF Head(s) \in {"[", "]"} THEN RemoveBrackets(Tail(s))
  ELSE <<Head(s)>> \o RemoveBrackets(Tail(s))

RECURSIVE SplitComma(_)
\* String.prototype.split(','): always at least one piece
SplitComma(s) ==
  IF \E i \in 1..Len(s) : s[i] = ","
  THEN LET i == CHOOSE j \in 1..Len(s) :
                  s[j] = "," /\ \A h \in 1..(j - 1) : s[h] # ","
       IN <<SubSeq(s, 1, i - 1)>> \o SplitComma(SubSeq(s, i + 1, Len(s)))
  ELSE <<s>>

Quotes == {"'", "\""}

\* replace(/^['"]|['"]$/g, ''): one leading quote, then one trailing quote
\* of what is left
StripQuotes(s) ==
  LET a == IF s # <<>> /\ Head(s) \in Quotes THEN Tail(s) ELSE s
  IN IF a # <<>> /\ a[Len(a)] \in Quotes THEN SubSeq(a, 1, Len(a) - 1) ELSE a

MapRef(s) == StripQuotes(Trim(s))

RECURSIVE MapRefs(_)
MapRefs(ss) ==
  IF ss = <<>> THEN <<>> ELSE <<MapRef(Head(ss))>> \o MapRefs(Tail(ss))

NonEmptyText(s) == s # <<>>

\* busStopALineRefsStr.replace(...).split(',').map(...).filter(...)
ParseLineRefs(s) ==
  SelectSeq(MapRefs(SplitComma(RemoveBrackets(s))), NonEmptyText)

\* ------------------------------------------------------ parsed XML values
\* One element value as xml2js delivers it: absent, a text, or an object
\* (an element that carries attributes or children).
Absent == [t |-> "absent", s |-> <<>>]
Str(s) == [t |-> "str", s |-> s]
Obj == [t |-> "obj", s |-> <<>>]

\* JavaScript truthiness of such a value (undefined and "" are falsy)
Truthy(x) == x.t = "obj" \/ (x.t = "str" /\ x.s # <<>>)

\* Timestamps are opaque strings; TAbsent is a missing element
TAbsent == [t |-> "absent", s |-> ""]
TStr(s) == [t |-> "str", s |-> s]

\* new Date(s).getTime() on the timestamps used here
DateGetTime(s) ==
  CASE s = "1970-01-01T00:00:00Z" -> Num(0)
    [] s = "1970-01-01T00:01:00Z" -> Num(60000)
    [] s = "1970-01-01T00:02:30Z" -> Num(150000)
    [] s = "1970-01-01T00:03:29Z" -> Num(209000)
    [] OTHER -> NaN

\* Math.round(n / d) for d > 0: halves round towards plus infinity
MathRoundDiv(n, d) == (2 * n + d) \div (2 * d)

\* A vehicle activity: activity?.MonitoredVehicleJourney?.[0] exists iff
\* journey; journey?.VehicleLocation?.[0] exists iff location.
JourneyOf(a) == a.journey
LocationOf(a) == a.journey /\ a.location
LineRefOf(a) == IF a.journey THEN a.LineRef ELSE Absent
DirectionRefOf(a) == IF a.journey THEN a.DirectionRef ELSE Absent
BlockRefOf(a) == IF a.journey THEN a.BlockRef ELSE Absent
LatitudeOf(a) == IF LocationOf(a) THEN a.Latitude ELSE Absent
LongitudeOf(a) == IF LocationOf(a) THEN a.Longitude ELSE Absent

\* parseFloat of an element value; an object converts to "[object Object]"
ParseFloatOf(x) == IF x.t = "str" THEN parseFloat(x.s) ELSE NaN

\* ------------------------------------------------------------ route data
RoutePointOf(lat, lon, m) ==
  [latitude |-> lat, longitude |-> lon, minutesAway |-> m]

NoPoint == RoutePointOf(0, 0, 0)

\* Result of JSON.parse of a route file
JsonNull == [t |-> "null", pts |-> <<>>]
JsonObj == [t |-> "obj", pts |-> <<>>]
JsonArr(pts) == [t |-> "arr", pts |-> pts]

\* calculateDistance in whole millimetres for integer degrees 0..7,
\* indexed [lat1 + 1][lat2 + 1][|lon2 - lon1| + 1]
HaversineMm ==
  <<
     <<<<0, 111194927, 222389853, 333584780, 444779707, 555974633, 667169560, 778364487>>,
       <<111194927, 157249381, 248629315, 351613162, 458446512, 566957407, 676338896, 786227706>>,
       <<222389853, 248629315, 314474805, 400862624, 497198001, 598698104, 703129814, 809359120>>,
       <<333584780, 351613162, 400862624, 471652288, 555811942, 648154244, 745645281, 846507985>>,
       <<444779707, 458446512, 497198001, 555811942, 628757797, 711641888, 801386486, 895932296>>,
       <<555974633, 566957407, 598698104, 648154244, 711641888, 785767221, 867808561, 955729467>>,
       <<667169560, 676338896, 703129814, 745645281, 801386486, 867808561, 942656346, 1024084000>>,
       <<778364487, 786227706, 809359120, 846507985, 895932296, 955729467, 1024084000, 1099400830>>>>,
     <<<<111194927, 157249381, 248629315, 351613162, 458446512, 566957407, 676338896, 786227706>>,
       <<0, 111177991, 222355979, 333533962, 444711937, 555889902, 667067854, 778245790>>,
       <<111194927, 157225432, 248568719, 351516741, 458315018, 566791232, 676138248, 785992694>>,
       <<222389853, 248606597, 314402951, 400735772, 497016144, 598462069, 702840322, 809016691>>,
       <<333584780, 351591746, 400787475, 471508553, 555595056, 647863566, 745281324, 846071474>>,
       <<444779707, 458425983, 497122274, 555659495, 628518168, 711310987, 800963218, 895416797>>,
       <<555974633, 566937489, 598622646, 647997390, 711387854, 785407636, 867339562, 955149623>>,
       <<667169560, 676319419, 703054863, 745486229, 801123333, 867428750, 942152679, 1023452731>>>>,
     <<<<222389853, 248629315, 314474805, 400862624, 497198001, 598698104, 703129814, 809359120>>,
       <<111194927, 157225432, 248568719, 351516741, 458315018, 566791232, 676138248, 785992694>>,
       <<0, 111127188, 222254366, 333381523, 444508649, 555635734, 666762767, 777889738>>,
       <<111194927, 157177552, 248447558, 351323937, 458052077, 566458939, 675737017, 785522748>>,
       <<222389853, 248568761, 314283255, 400524434, 496713148, 598068790, 702357963, 808446120>>,
       <<333584780, 351559652, 400674838, 471293087, 555269899, 647427748, 744735611, 845416954>>,
       <<444779707, 458397275, 497016366, 555446260, 628182944, 710848033, 800370993, 894695482>>,
       <<555974633, 566910968, 598522164, 647788489, 711049483, 784928618, 866714728, 954377053>>>>,
     <<<<333584780, 351613162, 400862624, 471652288, 555811942, 648154244, 745645281, 846507985>>,
       <<222389853, 248606597, 314402951, 400735772, 497016144, 598462069, 702840322, 809016691>>,
       <<111194927, 157177552, 248447558, 351323937, 458052077, 566458939, 675737017, 785522748>>,
       <<0, 111042534, 222085045, 333127509, 444169904, 555212206, 666254392, 777296439>>,
       <<111194927, 157105777, 248265889, 351034826, 457657784, 565960642, 675135338, 784818019>>,
       <<222389853, 248515845, 314115809, 400228735, 496289161, 597518438, 701682931, 807647622>>,
       <<333584780, 351516917, 400524821, 471006054, 554836679, 646847030, 744008409, 844544719>>,
       <<444779707, 458360423, 496880386, 555172427, 627752380, 710253333, 799610158, 893768737>>>>,
     <<<<444779707, 458446512, 497198001, 555811942, 628757797, 711641888, 801386486, 895932296>>,
       <<333584780, 351591746, 400787475, 471508553, 555595056, 647863566, 745281324, 846071474>>,
       <<222389853, 248568761, 314283255, 400524434, 496713148, 598068790, 702357963, 808446120>>,
       <<111194927, 157105777, 248265889, 351034826, 457657784, 565960642, 675135338, 784818019>>,
       <<0, 110924055, 221848068, 332771999, 443695807, 554619450, 665542887, 776466076>>,
       <<111194927, 157010163, 248023802, 350649524, 457132280, 565296510, 674333410, 783878739>>,
       <<222389853, 248447904, 313900739, 399848848, 495744390, 596811252, 700815493, 806621498>>,
       <<333584780, 351463588, 400337563, 470647675, 554295670, 646121730, 743100077, 843455162>>>>,
     <<<<555974633, 566957407, 598698104, 648154244, 711641888, 785767221, 867808561, 955729467>>,
       <<444779707, 458425983, 497122274, 555659495, 628518168, 711310987, 800963218, 895416797>>,
       <<333584780, 351559652, 400674838, 471293087, 555269899, 647427748, 744735611, 845416954>>,
       <<222389853, 248515845, 314115809, 400228735, 496289161, 597518438, 701682931, 807647622>>,
       <<111194927, 157010163, 248023802, 350649524, 457132280, 565296510, 674333410, 783878739>>,
       <<0, 110771786, 221543507, 332315101, 443086502, 553857646, 664628469, 775398906>>,
       <<111194927, 156890781, 247721416, 350168183, 456475755, 564466771, 673331499, 782705215>>,
       <<222389853, 248365008, 313638212, 399384997, 495079103, 595947537, 699755997, 805368135>>>>,
     <<<<667169560, 676338896, 703129814, 745645281, 801386486, 867808561, 942656346, 1024084000>>,
       <<555974633, 566937489, 598622646, 647997390, 711387854, 785407636, 867339562, 955149623>>,
       <<444779707, 458397275, 497016366, 555446260, 628182944, 710848033, 800370993, 894695482>>,
       <<333584780, 351516917, 400524821, 471006054, 554836679, 646847030, 744008409, 844544719>>,
       <<222389853, 248447904, 313900739, 399848848, 495744390, 596811252, 700815493, 806621498>>,
       <<111194927, 156890781, 247721416, 350168183, 456475755, 564466771, 673331499, 782705215>>,
       <<0, 110585774, 221171456, 331756953, 442342175, 552927028, 663511419, 774095256>>,
       <<111194927, 156747725, 247358878, 349590995, 455688445, 563471708, 672129938, 781297828>>>>,
     <<<<778364487, 786227706, 809359120, 846507985, 895932296, 955729467, 1024084000, 1099400830>>,
       <<667169560, 676319419, 703054863, 745486229, 801123333, 867428750, 942152679, 1023452731>>,
       <<555974633, 566910968, 598522164, 647788489, 711049483, 784928618, 866714728, 954377053>>,
       <<444779707, 458360423, 496880386, 555172427, 627752380, 710253333, 799610158, 893768737>>,
       <<333584780, 351463588, 400337563, 470647675, 554295670, 646121730, 743100077, 843455162>>,
       <<222389853, 248365008, 313638212, 399384997, 495079103, 595947537, 699755997, 805368135>>,
       <<111194927, 156747725, 247358878, 349590995, 455688445, 563471708, 672129938, 781297828>>,
       <<0, 110366076, 220732027, 331097728, 441463054, 551827880, 662192080, 772555529>>>>
  >>

Abs(n) == IF n < 0 THEN 0 - n ELSE n

\* calculateDistance(lat1, lon1, lat2, lon2): the bus coordinate is a
\* JavaScript number, the route point holds integers; a NaN or infinite
\* operand makes the result NaN
calculateDistance(lat1, lon1, lat2, lon2) ==
  IF lat1.k = "num" /\ lon1.k = "num"
  THEN Num(HaversineMm[lat1.v + 1][lat2 + 1][Abs(lon2 - lon1.v) + 1])
  ELSE NaN

\* a >= b on JavaScript numbers
Ge(a, b) == a.k # "nan" /\ b.k # "nan" /\ (a = b \/ Gt(a, b))

RECURSIVE NearestLoopLast(_, _, _, _, _, _)
\* NearestLoop with distance <= minDistance: the last of equals wins
NearestLoopLast(busLat, busLon, pts, i, minDistance, nearestPoint) ==
  IF i > Len(pts) THEN nearestPoint
  ELSE LET distance == calculateDistance(busLat, busLon,
                         pts[i].latitude, pts[i].longitude)
       IN IF Ge(minDistance, distance)
          THEN NearestLoopLast(busLat, busLon, pts, i + 1, distance,
                               [r |-> "point", p |-> pts[i]])
          ELSE NearestLoopLast(busLat, busLon, pts, i + 1, minDistance,
                               nearestPoint)

RECURSIVE NearestLoop(_, _, _, _, _, _)
\* the for-of loop of findNearestRoutePoint from index i on
NearestLoop(busLat, busLon, pts, i, minDistance, nearestPoint) ==
  IF i > Len(pts) THEN nearestPoint
  ELSE LET distance == calculateDistance(busLat, busLon,
                         pts[i].latitude, pts[i].longitude)
       IN IF Gt(minDistance, distance)
          THEN NearestLoop(busLat, busLon, pts, i + 1, distance,
                           [r |-> "point", p |-> pts[i]])
          ELSE NearestLoop(busLat, busLon, pts, i + 1, minDistance,
                           nearestPoint)

NullPoint == [r |-> "null", p |-> NoPoint]
ThrownPoint == [r |-> "throw", p |-> NoPoint]

\* findNearestRoutePoint: routePoints is whatever the route table holds
\* (a list, or a non-list object on which for-of throws a TypeError)
findNearestRoutePoint(busLat, busLon, routePoints) ==
  IF routePoints.t = "null" \/ (routePoints.t = "arr" /\ routePoints.pts = <<>>)
  THEN NullPoint
  ELSE IF routePoints.t # "arr" THEN ThrownPoint
  ELSE NearestLoop(busLat, busLon, routePoints.pts, 1, PosInf, NullPoint)

\* -------------------------------------------------------- input universes
T27 == <<"2", "7">>
TA == <<"A">>

Unset == [set |-> FALSE, s |-> <<>>]
SetTo(s) == [set |-> TRUE, s |-> s]

\* process.env values; !v is true for an unset variable and for ""
Falsy(v) == ~v.set \/ v.s = <<>>

BaseEnv ==
  [BUS_API_KEY |-> SetTo(<<"k", "1">>),
   BUS_STOP_A_LATITUDE |-> SetTo(<<"5">>),
   BUS_STOP_A_LONGITUDE |-> SetTo(<<"2">>),
   BUS_STOP_A_LINEREFS |-> SetTo(<<"[", "2", "7", "]">>)]

ApiKeyValues == {Unset, SetTo(<<>>), SetTo(<<"k", "2">>)}

LatitudeValues ==
  {Unset, SetTo(<<>>), SetTo(<<"x">>), SetTo(InfinityText)}

LongitudeValues == {Unset, SetTo(<<"x">>)}

LineRefsValues ==
  {Unset, SetTo(<<"[", "]">>), SetTo(<<" ", ",", " ">>),
   SetTo(<<"[", "'", "A", "'", ",", " ", "2", "7", "]">>)}

Envs ==
  {BaseEnv}
  \cup {[BaseEnv EXCEPT !.BUS_API_KEY = v] : v \in ApiKeyValues}
  \cup {[BaseEnv EXCEPT !.BUS_STOP_A_LATITUDE = v] : v \in LatitudeValues}
  \cup {[BaseEnv EXCEPT !.BUS_STOP_A_LONGITUDE = v] : v \in LongitudeValues}
  \cup {[BaseEnv EXCEPT !.BUS_STOP_A_LINEREFS = v] : v \in LineRefsValues}
  \cup {[BaseEnv EXCEPT !.BUS_API_KEY = SetTo(<<"k", "2">>),
                        !.BUS_STOP_A_LATITUDE = SetTo(<<"x">>)]}

P61 == RoutePointOf(6, 1, 3)
P63 == RoutePointOf(6, 3, 4)
P72 == RoutePointOf(7, 2, 8)
P52 == RoutePointOf(5, 2, 0)

\* What reading and parsing one route file can give
FileMissing == [st |-> "ENOENT", json |-> JsonNull]
FileBadJson == [st |-> "SyntaxError", json |-> JsonNull]
FileJson(j) == [st |-> "ok", json |-> j]

FileOutcomes(lineRef) ==
  IF lineRef = T27
  THEN {FileMissing, FileBadJson, FileJson(JsonNull), FileJson(JsonObj),
        FileJson(JsonArr(<<P61, P63, P52>>))}
  ELSE {FileMissing, FileJson(JsonArr(<<P72, P63>>))}

\* DirectionRef texts of the feed
Inbound == <<"i", "n", "b", "o", "u", "n", "d">>
Outbound == <<"o", "u", "t", "b", "o", "u", "n", "d">>

BaseActivity ==
  [journey |-> TRUE, location |-> TRUE,
   LineRef |-> Str(T27), DirectionRef |-> Str(Inbound),
   Latitude |-> Str(<<"7">>), Longitude |-> Str(<<"2">>),
   RecordedAtTime |-> TStr("1970-01-01T00:01:00Z"), BlockRef |-> Absent]

\* Records that differ from the base record in what the filter and the
\* coordinate parsing look at
FilterActivities ==
  {BaseActivity,
   \* kept whatever the direction; line identifier needs trimming
   [BaseActivity EXCEPT !.LineRef = Str(<<" ", "2", "7", " ">>),
                        !.DirectionRef = Str(Outbound),
                        !.Latitude = Str(<<"6">>),
                        !.Longitude = Str(<<"3">>),
                        !.BlockRef = Str(<<"B">>)],
   \* second line; latitude with trailing characters
   [BaseActivity EXCEPT !.LineRef = Str(TA), !.Latitude = Str(<<"6", "x">>)],
   [BaseActivity EXCEPT !.journey = FALSE],
   [BaseActivity EXCEPT !.location = FALSE],
   [BaseActivity EXCEPT !.LineRef = Str(<<>>)],
   [BaseActivity EXCEPT !.LineRef = Str(<<"2">>)],
   [BaseActivity EXCEPT !.LineRef = Str(<<"a">>)],
   [BaseActivity EXCEPT !.LineRef = Obj],
   [BaseActivity EXCEPT !.DirectionRef = Absent],
   [BaseActivity EXCEPT !.Latitude = Absent],
   [BaseActivity EXCEPT !.Latitude = Str(<<"x">>)],
   [BaseActivity EXCEPT !.Latitude = Str(<<"5">>)],
   [BaseActivity EXCEPT !.Latitude = Str(<<"4">>)],
   [BaseActivity EXCEPT !.Latitude = Str(InfinityText)],
   [BaseActivity EXCEPT !.Longitude = Absent],
   [BaseActivity EXCEPT !.Longitude = Str(<<"x">>)]}

RecordedAtValues ==
  {TAbsent, TStr("yesterday"), TStr("1970-01-01T00:00:00Z"),
   TStr("1970-01-01T00:02:30Z"), TStr("1970-01-01T00:03:29Z")}

\* Records that differ from the base record in their timestamp
AgeActivities ==
  {[BaseActivity EXCEPT !.RecordedAtTime = v] : v \in RecordedAtValues}

ResponseTimestamps ==
  {TAbsent, TStr("yesterday"), TStr("1970-01-01T00:00:00Z"),
   TStr("1970-01-01T00:01:00Z"), TStr("1970-01-01T00:02:30Z")}

BoundedSeq(S, n) == UNION {[1..m -> S] : m \in 0..n}

\* What a successful fetch and XML parse can deliver
\* (shape: what the document holds at VehicleActivity, "list" for an array
\* of records, "absent" for no such element, "not-list" for a value that is
\* not an array)
DocShapes == {"list", "absent", "not-list"}

Upstreams ==
  {[ts |-> TStr("1970-01-01T00:02:30Z"), acts |-> f, shape |-> "list"] :
     f \in BoundedSeq(FilterActivities, MaxFeed)}
  \cup {[ts |-> t, acts |-> f, shape |-> "list"] :
          t \in ResponseTimestamps, f \in BoundedSeq(AgeActivities, MaxFeed)}
  \cup {[ts |-> t, acts |-> <<>>, shape |-> sh] :
          t \in {TAbsent, TStr("1970-01-01T00:02:30Z")},
          sh \in {"absent", "not-list"}}

FetchErrors == {"network", "http-5xx", "bad-xml"}

\* ------------------------------------------------------- filter and enrich
Includes(seq, x) == \E i \in 1..Len(seq) : seq[i] = x

\* FilterCallback reading journey.VehicleLocation[0] without the optional
\* chaining: a record without a location throws instead of being dropped
FilterCallbackUnguarded(activity, lineRefs, stopLatitude) ==
  LET lineRef == LineRefOf(activity)
      directionRef == DirectionRefOf(activity)
      latitudeStr == LatitudeOf(activity)
      latitude == ParseFloatOf(latitudeStr)
  IN IF JourneyOf(activity) /\ ~LocationOf(activity) THEN "throw"
     ELSE IF ~JourneyOf(activity) \/ ~Truthy(lineRef)
        \/ ~Truthy(directionRef) \/ ~Truthy(latitudeStr)
     THEN "drop"
     ELSE IF isNaN(latitude) THEN "drop"
     ELSE IF lineRef.t # "str" THEN "throw"
     ELSE IF ~Includes(lineRefs, Trim(lineRef.s)) THEN "drop"
     ELSE IF ~Gt(latitude, stopLatitude) THEN "drop"
     ELSE "keep"

\* The filter callback: "keep", "drop", or "throw" (lineRef.trim is not a
\* function when the LineRef element is an object)
FilterCallback(activity, lineRefs, stopLatitude) ==
  LET lineRef == LineRefOf(activity)
      directionRef == DirectionRefOf(activity)
      latitudeStr == LatitudeOf(activity)
      latitude == ParseFloatOf(latitudeStr)
  IN IF ~JourneyOf(activity) \/ ~LocationOf(activity) \/ ~Truthy(lineRef)
        \/ ~Truthy(directionRef) \/ ~Truthy(latitudeStr)
     THEN "drop"
     ELSE IF isNaN(latitude) THEN "drop"
     ELSE IF lineRef.t # "str" THEN "throw"
     ELSE IF ~Includes(lineRefs, Trim(lineRef.s)) THEN "drop"
     ELSE IF ~Gt(latitude, stopLatitude) THEN "drop"
     ELSE "keep"

RECURSIVE FilterFromPrepend(_, _, _, _, _)
\* FilterFrom with the kept element put in front of the result
FilterFromPrepend(acts, i, acc, lineRefs, stopLatitude) ==
  IF i > Len(acts) THEN [threw |-> FALSE, kept |-> acc]
  ELSE LET r == FilterCallback(acts[i], lineRefs, stopLatitude)
       IN IF r = "throw" THEN [threw |-> TRUE, kept |-> <<>>]
          ELSE FilterFromPrepend(acts, i + 1,
                                 IF r = "keep" THEN <<i>> \o acc ELSE acc,
                                 lineRefs, stopLatitude)

RECURSIVE FilterFrom(_, _, _, _, _)
\* Array.prototype.filter from index i on; acc holds the indices of the
\* elements kept so far, in the order they were appended
FilterFrom(acts, i, acc, lineRefs, stopLatitude) ==
  IF i > Len(acts) THEN [threw |-> FALSE, kept |-> acc]
  ELSE LET r == FilterCallback(acts[i], lineRefs, stopLatitude)
       IN IF r = "throw" THEN [threw |-> TRUE, kept |-> <<>>]
          ELSE FilterFrom(acts, i + 1,
                          IF r = "keep" THEN Append(acc, i) ELSE acc,
                          lineRefs, stopLatitude)

\* PointsForRoute that always reads the entry of line 27
PointsForRouteFixedLine(table, lineRef) ==
  IF <<"2", "7">> \in DOMAIN table /\ table[<<"2", "7">>].t # "null"
  THEN table[<<"2", "7">>] ELSE JsonArr(<<>>)

\* routeData[lineRef] || []
PointsForRoute(table, lineRef) ==
  IF lineRef \in DOMAIN table /\ table[lineRef].t # "null"
  THEN table[lineRef] ELSE JsonArr(<<>>)

\* DataAgeMinutes that gives age 0 where the record's time is unusable
DataAgeMinutesZeroDefault(respTimeMs, recordedAtTime) ==
  IF respTimeMs.k = "num" /\ respTimeMs.v # 0
  THEN IF recordedAtTime.t = "str" /\ recordedAtTime.s # ""
          /\ ~isNaN(DateGetTime(recordedAtTime.s))
       THEN Num(MathRoundDiv(
                  respTimeMs.v - DateGetTime(recordedAtTime.s).v, 60000))
       ELSE Num(0)
  ELSE Null

\* The dataAgeMinutes computation of the map callback
DataAgeMinutes(respTimeMs, recordedAtTime) ==
  IF respTimeMs.k = "num" /\ respTimeMs.v # 0
     /\ recordedAtTime.t = "str" /\ recordedAtTime.s # ""
  THEN LET recordedTimeMs == DateGetTime(recordedAtTime.s)
       IN IF ~isNaN(recordedTimeMs)
          THEN Num(MathRoundDiv(respTimeMs.v - recordedTimeMs.v, 60000))
          ELSE Null
  ELSE Null

NoBus ==
  [latitude |-> NaN, longitude |-> NaN, latLonString |-> <<>>,
   estimatedMinutesAway |-> Null, lineRef |-> <<>>,
   dataAgeMinutes |-> Null, blockRef |-> Absent]

\* The map callback on a kept activity: the BusLocation it returns, or a
\* throw (location.Longitude[0] of a missing Longitude element, or for-of
\* over route data that is not a list)
MapCallback(activity, table, respTimeMs) ==
  LET lineRef == Trim(activity.LineRef.s)
      blockRef == BlockRefOf(activity)
      busLat == ParseFloatOf(activity.Latitude)
      busLon == ParseFloatOf(activity.Longitude)
      nearestPoint ==
        findNearestRoutePoint(busLat, busLon, PointsForRoute(table, lineRef))
  IN IF activity.Longitude.t = "absent" \/ nearestPoint.r = "throw"
     THEN [threw |-> TRUE, bus |-> NoBus]
     ELSE [threw |-> FALSE,
           bus |-> [latitude |-> busLat,
                    longitude |-> busLon,
                    latLonString |->
                      NumToText(busLat) \o <<" ">> \o NumToText(busLon),
                    estimatedMinutesAway |->
                      IF nearestPoint.r = "point"
                      THEN Num(nearestPoint.p.minutesAway) ELSE Null,
                    lineRef |-> lineRef,
                    dataAgeMinutes |->
                      DataAgeMinutes(respTimeMs, activity.RecordedAtTime),
                    blockRef |-> blockRef]]

RECURSIVE MapFromOnePerLine(_, _, _, _, _, _)
\* MapFrom that leaves out a bus of the line of the bus emitted before it
MapFromOnePerLine(acts, keptIdx, j, acc, table, respTimeMs) ==
  IF j > Len(keptIdx) THEN [threw |-> FALSE, buses |-> acc]
  ELSE LET r == MapCallback(acts[keptIdx[j]], table, respTimeMs)
       IN IF r.threw THEN [threw |-> TRUE, buses |-> <<>>]
          ELSE MapFromOnePerLine(
                 acts, keptIdx, j + 1,
                 IF acc # <<>> /\ acc[Len(acc)].lineRef = r.bus.lineRef
                 THEN acc ELSE Append(acc, r.bus),
                 table, respTimeMs)

RECURSIVE MapFrom(_, _, _, _, _, _)
\* Array.prototype.map over the kept activities from position j on
MapFrom(acts, keptIdx, j, acc, table, respTimeMs) ==
  IF j > Len(keptIdx) THEN [threw |-> FALSE, buses |-> acc]
  ELSE LET r == MapCallback(acts[keptIdx[j]], table, respTimeMs)
       IN IF r.threw THEN [threw |-> TRUE, buses |-> <<>>]
          ELSE MapFrom(acts, keptIdx, j + 1, Append(acc, r.bus),
                       table, respTimeMs)

\* JSON.stringify of a number or null: NaN and the infinities become null
JsonNumber(x) == IF x.k = "num" THEN x ELSE Null

JsonBus(b) ==
  [b EXCEPT !.latitude = JsonNumber(b.latitude),
            !.longitude = JsonNumber(b.longitude)]

\* JSON.stringify(filteredAndEnrichedBuses)
JsonBuses(buses) == [j \in 1..Len(buses) |-> JsonBus(buses[j])]

\* responseTimeMs as computed once from the feed's ResponseTimestamp
ResponseTimeMs(ts) ==
  IF ts.t = "str" /\ ts.s # ""
  THEN (IF isNaN(DateGetTime(ts.s)) THEN Null ELSE DateGetTime(ts.s))
  ELSE Null

NoBody == [kind |-> "none", message |-> "", list |-> <<>>]
MessageBody(m) == [kind |-> "message", message |-> m, list |-> <<>>]
ListBody(l) == [kind |-> "list", message |-> "", list |-> l]

\* ------------------------------------------------------------------ state
VARIABLES
  env,                      \* process.env of the invocation
  pc,                       \* where the handler is
  busStopALatitude, busStopALongitude, busStopALineRefs,
  routeData,                \* the table loadRouteData is filling
  loadIdx,                  \* position of loadRouteData's loop
  files,                    \* what each route file read so far gave
  fetchStarted,             \* axios.get has been called
  fetchOutcome,             \* "none", "ok", or how the fetch/parse failed
  stages,                   \* the pipeline stages that have run
  activities, responseTimestampStr, responseTimeMs,
  kept,                     \* result of filter: indices into activities
  filteredAndEnrichedBuses,
  statusCode, body,         \* the returned response (statusCode 0: none)
  docShape,                 \* what the fetched document held at VehicleActivity
  invocation,               \* which invocation of the handler this is
  earlier,                  \* inputs and response of the first invocation
  query, answer             \* one direct call of findNearestRoutePoint

vars ==
  <<env, pc, busStopALatitude, busStopALongitude, busStopALineRefs,
    routeData, loadIdx, files, fetchStarted, fetchOutcome, stages,
    activities, responseTimestampStr, responseTimeMs, kept,
    filteredAndEnrichedBuses, statusCode, body, docShape, invocation,
    earlier, query, answer>>

probe == <<query, answer, invocation, earlier>>

NoEarlier ==
  [fo |-> "none", shape |-> "none", acts |-> <<>>, ts |-> TAbsent,
   pc |-> "start", status |-> 0, body |-> NoBody]

EmptyTable == [x \in {} |-> JsonNull]

Locals ==
  /\ pc = "start"
  /\ busStopALatitude = NaN
  /\ busStopALongitude = NaN
  /\ busStopALineRefs = <<>>
  /\ routeData = EmptyTable
  /\ loadIdx = 1
  /\ files = [x \in {} |-> FileMissing]
  /\ fetchStarted = FALSE
  /\ fetchOutcome = "none"
  /\ stages = {}
  /\ activities = <<>>
  /\ responseTimestampStr = TAbsent
  /\ responseTimeMs = Null
  /\ kept = <<>>
  /\ filteredAndEnrichedBuses = <<>>
  /\ statusCode = 0
  /\ body = NoBody
  /\ docShape = "none"
  /\ invocation = 1
  /\ earlier = NoEarlier

NoQuery == [busLat |-> NaN, busLon |-> NaN, routePoints |-> JsonNull]
PendingPoint == [r |-> "pending", p |-> NoPoint]

Init == env \in Envs /\ Locals /\ query = NoQuery /\ answer = NullPoint

Return(code, b) ==
  /\ pc' = "done"
  /\ statusCode' = code
  /\ body' = b

\* if (!apiKey || !busStopALatitudeStr || ...) return 500
MissingEnv ==
  /\ pc = "start"
  /\ \/ Falsy(env.BUS_API_KEY)
     \/ Falsy(env.BUS_STOP_A_LATITUDE)
     \/ Falsy(env.BUS_STOP_A_LONGITUDE)
     \/ Falsy(env.BUS_STOP_A_LINEREFS)
  /\ Return(500, MessageBody("Missing required environment variables"))
  /\ UNCHANGED <<probe, docShape, env, busStopALatitude, busStopALongitude, busStopALineRefs,
                 routeData, loadIdx, files, fetchStarted, fetchOutcome,
                 stages, activities, responseTimestampStr, responseTimeMs,
                 kept, filteredAndEnrichedBuses>>

EnvPresent ==
  /\ ~Falsy(env.BUS_API_KEY)
  /\ ~Falsy(env.BUS_STOP_A_LATITUDE)
  /\ ~Falsy(env.BUS_STOP_A_LONGITUDE)
  /\ ~Falsy(env.BUS_STOP_A_LINEREFS)

\* InvalidEnv with the access key echoed in the message
InvalidEnvEchoesKey ==
  /\ pc = "start"
  /\ EnvPresent
  /\ \/ isNaN(parseFloat(env.BUS_STOP_A_LATITUDE.s))
     \/ isNaN(parseFloat(env.BUS_STOP_A_LONGITUDE.s))
     \/ ParseLineRefs(env.BUS_STOP_A_LINEREFS.s) = <<>>
  /\ busStopALatitude' = parseFloat(env.BUS_STOP_A_LATITUDE.s)
  /\ busStopALongitude' = parseFloat(env.BUS_STOP_A_LONGITUDE.s)
  /\ busStopALineRefs' = ParseLineRefs(env.BUS_STOP_A_LINEREFS.s)
  /\ Return(500, MessageBody(IF env.BUS_API_KEY.s = <<"k", "1">>
                             THEN "Invalid configuration for key k1"
                             ELSE "Invalid configuration for key k2"))
  /\ UNCHANGED <<probe, docShape, env, routeData, loadIdx, files,
                 fetchStarted, fetchOutcome, stages, activities,
                 responseTimestampStr, responseTimeMs, kept,
                 filteredAndEnrichedBuses>>

\* parse, then if (isNaN(lat) || isNaN(lon) || lineRefs.length === 0) 500
InvalidEnv ==
  /\ pc = "start"
  /\ EnvPresent
  /\ \/ isNaN(parseFloat(env.BUS_STOP_A_LATITUDE.s))
     \/ isNaN(parseFloat(env.BUS_STOP_A_LONGITUDE.s))
     \/ ParseLineRefs(env.BUS_STOP_A_LINEREFS.s) = <<>>
  /\ busStopALatitude' = parseFloat(env.BUS_STOP_A_LATITUDE.s)
  /\ busStopALongitude' = parseFloat(env.BUS_STOP_A_LONGITUDE.s)
  /\ busStopALineRefs' = ParseLineRefs(env.BUS_STOP_A_LINEREFS.s)
  /\ Return(500, MessageBody("Invalid or missing geo-coordinates or LineRefs"))
  /\ UNCHANGED <<probe, docShape, env, routeData, loadIdx, files, fetchStarted, fetchOutcome,
                 stages, activities, responseTimestampStr, responseTimeMs,
                 kept, filteredAndEnrichedBuses>>

\* AcceptEnv without the isNaN / empty-list check
AcceptEnvUnchecked ==
  /\ pc = "start"
  /\ EnvPresent
  /\ busStopALatitude' = parseFloat(env.BUS_STOP_A_LATITUDE.s)
  /\ busStopALongitude' = parseFloat(env.BUS_STOP_A_LONGITUDE.s)
  /\ busStopALineRefs' = ParseLineRefs(env.BUS_STOP_A_LINEREFS.s)
  /\ pc' = "load"
  /\ UNCHANGED <<probe, docShape, env, routeData, loadIdx, files, fetchStarted,
                 fetchOutcome, stages, activities, responseTimestampStr,
                 responseTimeMs, kept, filteredAndEnrichedBuses, statusCode,
                 body>>

\* the environment is accepted and loadRouteData is entered
AcceptEnv ==
  /\ pc = "start"
  /\ EnvPresent
  /\ ~isNaN(parseFloat(env.BUS_STOP_A_LATITUDE.s))
  /\ ~isNaN(parseFloat(env.BUS_STOP_A_LONGITUDE.s))
  /\ ParseLineRefs(env.BUS_STOP_A_LINEREFS.s) # <<>>
  /\ busStopALatitude' = parseFloat(env.BUS_STOP_A_LATITUDE.s)
  /\ busStopALongitude' = parseFloat(env.BUS_STOP_A_LONGITUDE.s)
  /\ busStopALineRefs' = ParseLineRefs(env.BUS_STOP_A_LINEREFS.s)
  /\ pc' = "load"
  /\ UNCHANGED <<probe, docShape, env, routeData, loadIdx, files, fetchStarted, fetchOutcome,
                 stages, activities, responseTimestampStr, responseTimeMs,
                 kept, filteredAndEnrichedBuses, statusCode, body>>

\* routeData[lineRef] after the try/catch around readFile and JSON.parse
LoadOne(outcome) == IF outcome.st = "ok" THEN outcome.json ELSE JsonArr(<<>>)

\* LoadRouteFile with the try/catch around the whole loop: the first file
\* that fails ends the loading and leaves no entry for its line
LoadRouteFileAbort ==
  /\ pc = "load"
  /\ loadIdx <= Len(busStopALineRefs)
  /\ LET lineRef == busStopALineRefs[loadIdx]
     IN \E outcome \in FileOutcomes(lineRef) :
          /\ lineRef \in DOMAIN files => outcome = files[lineRef]
          /\ files' = [x \in DOMAIN files \cup {lineRef} |->
                         IF x = lineRef THEN outcome ELSE files[x]]
          /\ routeData' =
               IF outcome.st = "ok"
               THEN [x \in DOMAIN routeData \cup {lineRef} |->
                       IF x = lineRef THEN outcome.json ELSE routeData[x]]
               ELSE routeData
          /\ loadIdx' = IF outcome.st = "ok" THEN loadIdx + 1
                        ELSE Len(busStopALineRefs) + 1
          /\ pc' = IF loadIdx = Len(busStopALineRefs) \/ outcome.st # "ok"
                   THEN "fetch" ELSE "load"
          /\ fetchStarted' =
               (loadIdx = Len(busStopALineRefs) \/ outcome.st # "ok")
  /\ UNCHANGED <<probe, docShape, env, busStopALatitude, busStopALongitude,
                 busStopALineRefs, fetchOutcome, stages, activities,
                 responseTimestampStr, responseTimeMs, kept,
                 filteredAndEnrichedBuses, statusCode, body>>

\* one iteration of loadRouteData's loop; after the last one the handler
\* goes on to call axios.get
LoadRouteFile ==
  /\ pc = "load"
  /\ loadIdx <= Len(busStopALineRefs)
  /\ LET lineRef == busStopALineRefs[loadIdx]
     IN \E outcome \in FileOutcomes(lineRef) :
          /\ lineRef \in DOMAIN files => outcome = files[lineRef]
          /\ files' = [x \in DOMAIN files \cup {lineRef} |->
                         IF x = lineRef THEN outcome ELSE files[x]]
          /\ routeData' = [x \in DOMAIN routeData \cup {lineRef} |->
                             IF x = lineRef THEN LoadOne(outcome)
                             ELSE routeData[x]]
  /\ loadIdx' = loadIdx + 1
  /\ pc' = IF loadIdx = Len(busStopALineRefs) THEN "fetch" ELSE "load"
  /\ fetchStarted' = (loadIdx = Len(busStopALineRefs))
  /\ UNCHANGED <<probe, docShape, env, busStopALatitude, busStopALongitude, busStopALineRefs,
                 fetchOutcome, stages, activities, responseTimestampStr,
                 responseTimeMs, kept, filteredAndEnrichedBuses, statusCode,
                 body>>

\* FetchFail that goes on with an empty activity list instead of returning
FetchFailEmptyList ==
  /\ pc = "fetch"
  /\ \E e \in FetchErrors : fetchOutcome' = e
  /\ pc' = "filter"
  /\ UNCHANGED <<probe, docShape, env, busStopALatitude, busStopALongitude,
                 busStopALineRefs, routeData, loadIdx, files, fetchStarted,
                 stages, activities, responseTimestampStr, responseTimeMs,
                 kept, filteredAndEnrichedBuses, statusCode, body>>

\* axios.get rejects or parseStringPromise rejects: the catch returns 502
FetchFail ==
  /\ pc = "fetch"
  /\ \E e \in FetchErrors :
       /\ invocation > 1 => e = earlier.fo
       /\ fetchOutcome' = e
  /\ Return(502, MessageBody("Failed to fetch or parse bus API data"))
  /\ UNCHANGED <<probe, env, busStopALatitude, busStopALongitude, busStopALineRefs,
                 routeData, loadIdx, files, fetchStarted, stages, activities,
                 responseTimestampStr, responseTimeMs, kept,
                 filteredAndEnrichedBuses, docShape>>

\* The documents the fetch can deliver: any of Upstreams to the first
\* invocation, and to a later one the document the first invocation got
UpstreamChoices ==
  IF invocation = 1 THEN Upstreams
  ELSE IF earlier.fo = "ok"
  THEN {[ts |-> earlier.ts, acts |-> earlier.acts, shape |-> earlier.shape]}
  ELSE {}

\* FetchOk that does not wait for loadRouteData: the document can arrive,
\* and the pipeline go on, while route files are still being read
FetchOkBeforeLoad ==
  /\ pc \in {"load", "fetch"}
  /\ \E u \in UpstreamChoices :
       /\ activities' = IF u.shape = "list" THEN u.acts ELSE <<>>
       /\ docShape' = u.shape
       /\ responseTimestampStr' = u.ts
       /\ responseTimeMs' = ResponseTimeMs(u.ts)
  /\ fetchOutcome' = "ok"
  /\ pc' = "filter"
  /\ UNCHANGED <<probe, env, busStopALatitude, busStopALongitude,
                 busStopALineRefs, routeData, loadIdx, files, fetchStarted,
                 stages, kept, filteredAndEnrichedBuses, statusCode, body>>

\* the document arrives: activities and ResponseTimestamp are extracted and
\* responseTimeMs is computed
FetchOk ==
  /\ pc = "fetch"
  /\ \E u \in UpstreamChoices :
       /\ activities' = IF u.shape = "list" THEN u.acts ELSE <<>>
       /\ docShape' = u.shape
       /\ responseTimestampStr' = u.ts
       /\ responseTimeMs' = ResponseTimeMs(u.ts)
  /\ fetchOutcome' = "ok"
  /\ pc' = "filter"
  /\ UNCHANGED <<probe, env, busStopALatitude, busStopALongitude, busStopALineRefs,
                 routeData, loadIdx, files, fetchStarted, stages, kept,
                 filteredAndEnrichedBuses, statusCode, body>>

\* FilterStage that answers 404 when the filter keeps no record
FilterStageRejectsEmpty ==
  /\ pc = "filter"
  /\ LET r == FilterFrom(activities, 1, <<>>, busStopALineRefs,
                         busStopALatitude)
     IN /\ kept' = r.kept
        /\ pc' = IF r.threw THEN "threw"
                 ELSE IF r.kept = <<>> THEN "done" ELSE "enrich"
        /\ statusCode' = IF ~r.threw /\ r.kept = <<>> THEN 404 ELSE statusCode
        /\ body' = IF ~r.threw /\ r.kept = <<>>
                   THEN MessageBody("No buses found") ELSE body
  /\ stages' = stages \cup {"filter"}
  /\ UNCHANGED <<probe, docShape, env, busStopALatitude, busStopALongitude,
                 busStopALineRefs, routeData, loadIdx, files, fetchStarted,
                 fetchOutcome, activities, responseTimestampStr,
                 responseTimeMs, filteredAndEnrichedBuses>>

\* activities.filter(...)
FilterStage ==
  /\ pc = "filter"
  /\ LET r == FilterFrom(activities, 1, <<>>, busStopALineRefs,
                         busStopALatitude)
     IN /\ kept' = r.kept
        /\ pc' = IF r.threw THEN "threw" ELSE "enrich"
  /\ stages' = stages \cup {"filter"}
  /\ UNCHANGED <<probe, docShape, env, busStopALatitude, busStopALongitude, busStopALineRefs,
                 routeData, loadIdx, files, fetchStarted, fetchOutcome,
                 activities, responseTimestampStr, responseTimeMs,
                 filteredAndEnrichedBuses, statusCode, body>>

\* EnrichStage that takes the route points it has used out of the table
EnrichStageConsumesRoutes ==
  /\ pc = "enrich"
  /\ LET r == MapFrom(activities, kept, 1, <<>>, routeData, responseTimeMs)
     IN /\ filteredAndEnrichedBuses' = r.buses
        /\ pc' = IF r.threw THEN "threw" ELSE "done"
        /\ statusCode' = IF r.threw THEN 0 ELSE 200
        /\ body' = IF r.threw THEN NoBody ELSE ListBody(JsonBuses(r.buses))
        /\ routeData' =
             [id \in DOMAIN routeData |->
                IF \E j \in 1..Len(r.buses) : r.buses[j].lineRef = id
                THEN JsonArr(<<>>) ELSE routeData[id]]
  /\ stages' = stages \cup {"enrich"}
  /\ UNCHANGED <<probe, docShape, env, busStopALatitude, busStopALongitude,
                 busStopALineRefs, loadIdx, files, fetchStarted,
                 fetchOutcome, activities, responseTimestampStr,
                 responseTimeMs, kept>>

\* .map(...) and the 200 response
EnrichStage ==
  /\ pc = "enrich"
  /\ LET r == MapFrom(activities, kept, 1, <<>>, routeData, responseTimeMs)
     IN /\ filteredAndEnrichedBuses' = r.buses
        /\ pc' = IF r.threw THEN "threw" ELSE "done"
        /\ statusCode' = IF r.threw THEN 0 ELSE 200
        /\ body' = IF r.threw THEN NoBody ELSE ListBody(JsonBuses(r.buses))
  /\ stages' = stages \cup {"enrich"}
  /\ UNCHANGED <<probe, docShape, env, busStopALatitude, busStopALongitude, busStopALineRefs,
                 routeData, loadIdx, files, fetchStarted, fetchOutcome,
                 activities, responseTimestampStr, responseTimeMs, kept>>

Next ==
  \/ MissingEnv
  \/ InvalidEnv
  \/ AcceptEnv
  \/ LoadRouteFile
  \/ FetchFail
  \/ FetchOk
  \/ FilterStage
  \/ EnrichStage

Spec == Init /\ [][Next]_vars

\* ------------------------------------------------- the handler invoked again
\* The handler keeps nothing outside its own call: every variable it
\* assigns is declared inside the handler, and the module level holds only
\* dotenv.config().  A later invocation in the same process starts from
\* fresh locals, with the process environment and the route files as they
\* were; the upstream it meets is the one the first invocation met.
MaxInvocations == 2

\* The longest feed after which the handler is invoked again
MaxRepeatFeed == 1

\* Reinvoke with the result list kept at module level
ReinvokeKeepsBuses ==
  /\ pc \in {"done", "threw"}
  /\ invocation < MaxInvocations
  /\ Len(activities) <= MaxRepeatFeed
  /\ invocation' = invocation + 1
  /\ earlier' = IF invocation = 1
                THEN [fo |-> fetchOutcome, shape |-> docShape,
                      acts |-> activities, ts |-> responseTimestampStr,
                      pc |-> pc, status |-> statusCode, body |-> body]
                ELSE earlier
  /\ pc' = "start"
  /\ busStopALatitude' = NaN
  /\ busStopALongitude' = NaN
  /\ busStopALineRefs' = <<>>
  /\ routeData' = EmptyTable
  /\ loadIdx' = 1
  /\ fetchStarted' = FALSE
  /\ fetchOutcome' = "none"
  /\ stages' = {}
  /\ activities' = <<>>
  /\ responseTimestampStr' = TAbsent
  /\ responseTimeMs' = Null
  /\ kept' = <<>>
  /\ statusCode' = 0
  /\ body' = NoBody
  /\ docShape' = "none"
  /\ UNCHANGED <<env, files, filteredAndEnrichedBuses, query, answer>>

Reinvoke ==
  /\ pc \in {"done", "threw"}
  /\ invocation < MaxInvocations
  /\ Len(activities) <= MaxRepeatFeed
  /\ invocation' = invocation + 1
  /\ earlier' = IF invocation = 1
                THEN [fo |-> fetchOutcome, shape |-> docShape,
                      acts |-> activities, ts |-> responseTimestampStr,
                      pc |-> pc, status |-> statusCode, body |-> body]
                ELSE earlier
  /\ pc' = "start"
  /\ busStopALatitude' = NaN
  /\ busStopALongitude' = NaN
  /\ busStopALineRefs' = <<>>
  /\ routeData' = EmptyTable
  /\ loadIdx' = 1
  /\ fetchStarted' = FALSE
  /\ fetchOutcome' = "none"
  /\ stages' = {}
  /\ activities' = <<>>
  /\ responseTimestampStr' = TAbsent
  /\ responseTimeMs' = Null
  /\ kept' = <<>>
  /\ filteredAndEnrichedBuses' = <<>>
  /\ statusCode' = 0
  /\ body' = NoBody
  /\ docShape' = "none"
  /\ UNCHANGED <<env, files, query, answer>>

RepeatEnvs ==
  {BaseEnv,
   [BaseEnv EXCEPT !.BUS_STOP_A_LINEREFS = SetTo(<<"2", "7", ",", "A">>)],
   [BaseEnv EXCEPT !.BUS_API_KEY = Unset],
   [BaseEnv EXCEPT !.BUS_STOP_A_LATITUDE = SetTo(<<"x">>)]}

InitRepeat ==
  env \in RepeatEnvs /\ Locals /\ query = NoQuery /\ answer = NullPoint

NextRepeat ==
  \/ MissingEnv
  \/ InvalidEnv
  \/ AcceptEnv
  \/ LoadRouteFile
  \/ FetchFail
  \/ FetchOk
  \/ FilterStage
  \/ EnrichStage
  \/ Reinvoke

SpecRepeat == InitRepeat /\ [][NextRepeat]_vars

\* ------------------------------------ findNearestRoutePoint called directly
RoutePoints == {P61, P63, P72, P52, RoutePointOf(6, 1, 9)}

Queries ==
  {[busLat |-> la, busLon |-> lo, routePoints |-> JsonArr(pts)] :
     la \in {Num(6), Num(7), PosInf},
     lo \in {Num(2), Num(4), NaN},
     pts \in BoundedSeq(RoutePoints, MaxPoints)}

InitNearest ==
  /\ env = BaseEnv
  /\ Locals
  /\ query \in Queries
  /\ answer = PendingPoint

CallNearest ==
  /\ answer = PendingPoint
  /\ answer' = findNearestRoutePoint(query.busLat, query.busLon,
                                      query.routePoints)
  /\ UNCHANGED <<env, pc, busStopALatitude, busStopALongitude,
                 busStopALineRefs, routeData, loadIdx, files, fetchStarted,
                 fetchOutcome, stages, activities, responseTimestampStr,
                 responseTimeMs, kept, filteredAndEnrichedBuses, statusCode,
                 body, docShape, invocation, earlier, query>>

NextNearest == CallNearest

SpecNearest == InitNearest /\ [][NextNearest]_vars

\* ================================================================= claims
Filtered == pc \in {"enrich", "done"} /\ "filter" \in stages

Responded200 == pc = "done" /\ statusCode = 200

Monitored(lineText) == Includes(busStopALineRefs, lineText)

NonEmptyStr(x) == x.t = "str" /\ x.s # <<>>

\* C1: a record is kept by the filter stage if and only if it has a
\* journey, a location, a non-empty line identifier, a non-empty direction
\* identifier, a latitude that parses as a finite number, its trimmed line
\* identifier equals a monitored line identifier, and its parsed latitude
\* is strictly greater than the stop latitude.
C1_FilterKeepsIff ==
  Filtered =>
    \A i \in 1..Len(activities) :
      LET a == activities[i]
      IN Includes(kept, i) <=>
           /\ a.journey
           /\ a.location
           /\ NonEmptyStr(a.LineRef)
           /\ NonEmptyStr(a.DirectionRef)
           /\ a.Latitude.t = "str"
           /\ IsFiniteNum(parseFloat(a.Latitude.s))
           /\ Monitored(Trim(a.LineRef.s))
           /\ Gt(parseFloat(a.Latitude.s), busStopALatitude)

\* C2: the 200 response list holds exactly one BusResult per kept record,
\* in the order in which the kept records appear in the feed: the kept
\* indices are strictly increasing, they are exactly the records the filter
\* callback keeps, and the j-th result is the one made from the j-th kept
\* record.
C2_OnePerKeptInOrder ==
  Responded200 =>
    /\ body.kind = "list"
    /\ Len(body.list) = Len(kept)
    /\ \A j \in 1..Len(kept) : kept[j] \in 1..Len(activities)
    /\ \A j \in 1..(Len(kept) - 1) : kept[j] < kept[j + 1]
    /\ \A i \in 1..Len(activities) :
         Includes(kept, i) <=>
           FilterCallback(activities[i], busStopALineRefs,
                          busStopALatitude) = "keep"
    /\ \A j \in 1..Len(kept) :
         LET a == activities[kept[j]]
         IN /\ body.list[j].lineRef = Trim(a.LineRef.s)
            /\ body.list[j].latitude = JsonNumber(parseFloat(a.Latitude.s))
            /\ body.list[j].blockRef = a.BlockRef

\* C2 witness: a 200 response with two results made from two different
\* records, one record of the feed between or around them being dropped
C2_Witness ==
  /\ Responded200
  /\ Len(body.list) = 2
  /\ body.list[1] # body.list[2]

\* The points loaded for a line: the entries of its list in routeData
PointsLoaded(lineText) ==
  IF lineText \in DOMAIN routeData /\ routeData[lineText].t = "arr"
  THEN routeData[lineText].pts ELSE <<>>

\* pts[i] is at minimal distance from (lat, lon) among pts
Minimal(lat, lon, pts, i) ==
  LET D(k) == calculateDistance(lat, lon, pts[k].latitude, pts[k].longitude)
  IN /\ D(i).k = "num"
     /\ \A k \in 1..Len(pts) : D(k).k = "num" /\ D(i).v <= D(k).v

\* pts[i] is the first point of pts at minimal distance from (lat, lon)
FirstMinimal(lat, lon, pts, i) ==
  LET D(k) == calculateDistance(lat, lon, pts[k].latitude, pts[k].longitude)
  IN /\ Minimal(lat, lon, pts, i)
     /\ \A k \in 1..(i - 1) : D(k).v > D(i).v

\* C3 as stated: estimatedMinutesAway is the minutesAway of a nearest point
\* of the record's own line, and it is null exactly when that line has no
\* route points.
C3_EstimateNullIffNoPoints ==
  Responded200 =>
    \A j \in 1..Len(kept) :
      LET a == activities[kept[j]]
          pts == PointsLoaded(Trim(a.LineRef.s))
          est == body.list[j].estimatedMinutesAway
      IN /\ est = Null <=> pts = <<>>
         /\ pts # <<>> =>
              \E i \in 1..Len(pts) :
                /\ Minimal(parseFloat(a.Latitude.s),
                           ParseFloatOf(a.Longitude), pts, i)
                /\ est = Num(pts[i].minutesAway)

\* C3 amended: estimatedMinutesAway is the minutesAway of a nearest point
\* of the record's own line whenever that line has route points and the
\* record's parsed latitude and longitude are both finite; it is null
\* exactly when the line has no route points or the parsed latitude or
\* longitude is not finite; every kept record has its BusResult whether or
\* not its line has route data.
C3_EstimateFromOwnLine ==
  Responded200 =>
    /\ Len(body.list) = Len(kept)
    /\ \A j \in 1..Len(kept) :
         LET a == activities[kept[j]]
             pts == PointsLoaded(Trim(a.LineRef.s))
             est == body.list[j].estimatedMinutesAway
             lat == parseFloat(a.Latitude.s)
             lon == ParseFloatOf(a.Longitude)
             finite == IsFiniteNum(lat) /\ IsFiniteNum(lon)
         IN /\ est = Null <=> (pts = <<>> \/ ~finite)
            /\ est # Null =>
                 \E i \in 1..Len(pts) :
                   /\ Minimal(lat, lon, pts, i)
                   /\ est = Num(pts[i].minutesAway)

\* C3 witness: one response with an estimate taken from a route point and
\* a null estimate for a record whose line has route points but whose
\* longitude does not parse
C3_Witness ==
  /\ Responded200
  /\ \E j \in 1..Len(kept) : body.list[j].estimatedMinutesAway # Null
  /\ \E j \in 1..Len(kept) :
       /\ body.list[j].estimatedMinutesAway = Null
       /\ PointsLoaded(body.list[j].lineRef) # <<>>
       /\ isNaN(ParseFloatOf(activities[kept[j]].Longitude))

Answered == answer # PendingPoint /\ query # NoQuery

\* C4 as stated: findNearestRoutePoint(P, S) is null iff S is empty, and
\* for non-empty S it is the first point of S at minimal distance from P.
C4_NullIffEmpty ==
  Answered =>
    LET pts == query.routePoints.pts
    IN /\ answer.r = "null" <=> pts = <<>>
       /\ pts # <<>> =>
            \E i \in 1..Len(pts) :
              /\ answer = [r |-> "point", p |-> pts[i]]
              /\ FirstMinimal(query.busLat, query.busLon, pts, i)

\* C4 amended: findNearestRoutePoint(P, S) is null iff S is empty or a
\* coordinate of P is not finite (every distance is then NaN); for
\* non-empty S and finite P it is the first point of S at minimal distance
\* from P.
C4_FirstNearest ==
  Answered =>
    LET pts == query.routePoints.pts
        finite == IsFiniteNum(query.busLat) /\ IsFiniteNum(query.busLon)
    IN /\ answer.r \in {"null", "point"}
       /\ answer.r = "null" <=> (pts = <<>> \/ ~finite)
       /\ answer.r = "point" =>
            \E i \in 1..Len(pts) :
              /\ answer.p = pts[i]
              /\ FirstMinimal(query.busLat, query.busLon, pts, i)

\* C4 witness: two different points at the same minimal distance, the
\* first of them returned
C4_Witness ==
  /\ Answered
  /\ Len(query.routePoints.pts) = 2
  /\ query.routePoints.pts[1] # query.routePoints.pts[2]
  /\ Minimal(query.busLat, query.busLon, query.routePoints.pts, 1)
  /\ Minimal(query.busLat, query.busLon, query.routePoints.pts, 2)
  /\ answer = [r |-> "point", p |-> query.routePoints.pts[1]]

\* C5: once loadRouteData has processed a line identifier, the route table
\* has an entry for it that depends on that line's own file only: the
\* parsed content when the file was read, the empty sequence when the file
\* is missing or unreadable; when loading has finished, every requested
\* identifier has been processed.
C5_EveryLineHasEntry ==
  /\ fetchStarted => loadIdx = Len(busStopALineRefs) + 1
  /\ \A i \in 1..(loadIdx - 1) :
       LET id == busStopALineRefs[i]
       IN /\ id \in DOMAIN routeData
          /\ id \in DOMAIN files
          /\ files[id].st = "ENOENT" => routeData[id] = JsonArr(<<>>)
          /\ files[id].st = "SyntaxError" => routeData[id] = JsonArr(<<>>)
          /\ files[id].st = "ok" => routeData[id] = files[id].json

\* C5 witness: loading finished for two lines, the file of the first one
\* missing and the points of the second one loaded
C5_Witness ==
  /\ fetchStarted
  /\ Len(busStopALineRefs) = 2
  /\ files[busStopALineRefs[1]].st = "ENOENT"
  /\ routeData[busStopALineRefs[1]] = JsonArr(<<>>)
  /\ routeData[busStopALineRefs[2]].pts # <<>>

\* The configuration is invalid: a required variable is unset or empty, a
\* stop coordinate does not parse to a number, or no line identifier is
\* left after parsing
ConfigInvalid ==
  \/ ~EnvPresent
  \/ isNaN(parseFloat(env.BUS_STOP_A_LATITUDE.s))
  \/ isNaN(parseFloat(env.BUS_STOP_A_LONGITUDE.s))
  \/ ParseLineRefs(env.BUS_STOP_A_LINEREFS.s) = <<>>

\* C6: with an invalid configuration the invocation can only return status
\* 500 with a {message} body, and neither a route file read nor the
\* upstream fetch is ever started.
C6_InvalidConfig500 ==
  ConfigInvalid =>
    /\ pc \in {"start", "done"}
    /\ pc = "done" =>
         statusCode = 500 /\ body.kind = "message" /\ body.message # ""
    /\ ~fetchStarted
    /\ fetchOutcome = "none"
    /\ DOMAIN files = {}
    /\ routeData = EmptyTable
    /\ stages = {}

\* C6 witness: status 500 returned because the line list is empty after
\* parsing, all variables being set and both coordinates being numbers
C6_Witness ==
  /\ pc = "done"
  /\ statusCode = 500
  /\ EnvPresent
  /\ busStopALineRefs = <<>>
  /\ IsFiniteNum(busStopALatitude)
  /\ IsFiniteNum(busStopALongitude)

\* C7: when the fetch or the XML parse fails, the invocation returns status
\* 502 with a {message} body without bus data, and neither the filter nor
\* the enrich stage runs.
C7_FetchFailure502 ==
  fetchOutcome \in FetchErrors =>
    /\ pc = "done"
    /\ statusCode = 502
    /\ body.kind = "message"
    /\ body.message # ""
    /\ body.list = <<>>
    /\ stages = {}
    /\ kept = <<>>
    /\ filteredAndEnrichedBuses = <<>>

\* C7 witness: a 502 after a non-2xx answer although route points had been
\* loaded
C7_Witness ==
  /\ fetchOutcome = "http-5xx"
  /\ statusCode = 502
  /\ \E id \in DOMAIN routeData : routeData[id].pts # <<>>

\* What the filter and enrich stages make of a list of activities
Outcome(acts) ==
  LET f == FilterFrom(acts, 1, <<>>, busStopALineRefs, busStopALatitude)
      m == MapFrom(acts, f.kept, 1, <<>>, routeData, responseTimeMs)
  IN IF f.threw \/ m.threw THEN [status |-> 0, list |-> <<>>]
     ELSE [status |-> 200, list |-> JsonBuses(m.buses)]

RemoveAt(seq, i) == SubSeq(seq, 1, i - 1) \o SubSeq(seq, i + 1, Len(seq))

\* A record that fails validation: no journey, no location, no or empty
\* line identifier, no or empty direction identifier, no latitude or a
\* latitude that does not parse
InvalidRecord(a) ==
  \/ ~a.journey
  \/ ~a.location
  \/ a.LineRef.t = "absent" \/ a.LineRef = Str(<<>>)
  \/ a.DirectionRef.t = "absent" \/ a.DirectionRef = Str(<<>>)
  \/ a.Latitude.t = "absent"
  \/ isNaN(ParseFloatOf(a.Latitude))

\* C8: a record that fails validation is not kept and raises nothing: the
\* outcome of the invocation (status and list) is the outcome the same
\* feed has without that record, and a feed of invalid records only gives
\* status 200 with an empty list.
C8_InvalidRecordIgnored ==
  (pc \in {"done", "threw"} /\ fetchOutcome = "ok") =>
    /\ \A i \in 1..Len(activities) :
         InvalidRecord(activities[i]) =>
           /\ ~Includes(kept, i)
           /\ [status |-> statusCode, list |-> body.list]
                = Outcome(RemoveAt(activities, i))
    /\ (\A i \in 1..Len(activities) : InvalidRecord(activities[i])) =>
         statusCode = 200 /\ body = ListBody(<<>>)

\* C8 witness: a 200 response with a result, from a feed that also holds a
\* record without location
C8_Witness ==
  /\ Responded200
  /\ Len(body.list) >= 1
  /\ \E i \in 1..Len(activities) :
       activities[i].journey /\ ~activities[i].location

\* C9: a kept record whose longitude is absent or does not parse still has
\* its BusResult in the 200 response, and the invocation does not fail
\* (route data that is not a list set aside).
C9_BadLongitudeStillEmitted ==
  (\A id \in DOMAIN routeData : routeData[id].t # "obj") =>
    \A j \in 1..Len(kept) :
      LET a == activities[kept[j]]
      IN (a.Longitude.t = "absent" \/ isNaN(ParseFloatOf(a.Longitude))) =>
           \/ pc = "enrich"
           \/ /\ Responded200
              /\ Len(body.list) = Len(kept)
              /\ body.list[j].lineRef = Trim(a.LineRef.s)

ValidInstant(ts) == ts.t = "str" /\ ~isNaN(DateGetTime(ts.s))

\* m is n / d rounded to the nearest integer (d > 0, halves upwards)
IsRounded(n, d, m) == d * (2 * m - 1) <= 2 * n /\ 2 * n < d * (2 * m + 1)

\* C10: dataAgeMinutes is round((responseTimestamp - recordedAt) / 60000)
\* whenever both parse to valid instants, the epoch included, and it is
\* null if and only if one of the two is absent or does not parse.
C10_DataAgeRounded ==
  Responded200 =>
    \A j \in 1..Len(kept) :
      LET rec == activities[kept[j]].RecordedAtTime
          age == body.list[j].dataAgeMinutes
          both == ValidInstant(responseTimestampStr) /\ ValidInstant(rec)
      IN /\ age = Null <=> ~both
         /\ both =>
              IsRounded(DateGetTime(responseTimestampStr.s).v
                          - DateGetTime(rec.s).v, 60000, age.v)

\* ---------------------------------------------- the handler as a function
\* The response of one invocation computed from its inputs: the process
\* environment e, what each route file gives (fileOf), the outcome of the
\* fetch (fo), and for a successful fetch the shape of the document, its
\* records and its ResponseTimestamp
Finished == pc \in {"done", "threw"}

LineSet(lineRefs) == {lineRefs[i] : i \in 1..Len(lineRefs)}

HandlerResponse(e, fileOf, fo, shape, acts, ts) ==
  IF \/ Falsy(e.BUS_API_KEY)
     \/ Falsy(e.BUS_STOP_A_LATITUDE)
     \/ Falsy(e.BUS_STOP_A_LONGITUDE)
     \/ Falsy(e.BUS_STOP_A_LINEREFS)
  THEN [pc |-> "done", status |-> 500,
        body |-> MessageBody("Missing required environment variables")]
  ELSE
    LET lat == parseFloat(e.BUS_STOP_A_LATITUDE.s)
        lon == parseFloat(e.BUS_STOP_A_LONGITUDE.s)
        lineRefs == ParseLineRefs(e.BUS_STOP_A_LINEREFS.s)
    IN IF isNaN(lat) \/ isNaN(lon) \/ lineRefs = <<>>
       THEN [pc |-> "done", status |-> 500,
             body |-> MessageBody(
                        "Invalid or missing geo-coordinates or LineRefs")]
       ELSE IF fo \in FetchErrors
       THEN [pc |-> "done", status |-> 502,
             body |-> MessageBody("Failed to fetch or parse bus API data")]
       ELSE
         LET table == [id \in LineSet(lineRefs) |-> LoadOne(fileOf[id])]
             list == IF shape = "list" THEN acts ELSE <<>>
             f == FilterFrom(list, 1, <<>>, lineRefs, lat)
             m == MapFrom(list, f.kept, 1, <<>>, table, ResponseTimeMs(ts))
         IN IF f.threw \/ m.threw
            THEN [pc |-> "threw", status |-> 0, body |-> NoBody]
            ELSE [pc |-> "done", status |-> 200,
                  body |-> ListBody(JsonBuses(m.buses))]

\* The environment with the access key replaced by one fixed key
WithFixedKey(e) == [e EXCEPT !.BUS_API_KEY = SetTo(<<"k", "1">>)]

\* C11: the response does not depend on the value of the access key: when
\* an invocation with a non-empty key has finished, whichever key it had,
\* its end, status and body are those of the handler run with one fixed
\* key on the same environment otherwise, the same route files and the
\* same upstream outcome (the same failure, or the same document); two
\* invocations that differ only in the key therefore answer the same.
C11_KeyNeverInResponse ==
  (Finished /\ ~Falsy(env.BUS_API_KEY)) =>
    HandlerResponse(WithFixedKey(env), files, fetchOutcome, docShape,
                    activities, responseTimestampStr)
      = [pc |-> pc, status |-> statusCode, body |-> body]

\* C11 witness: an invocation with the second key has ended on the upstream
\* failure path
C11_Witness ==
  /\ pc = "done"
  /\ env.BUS_API_KEY = SetTo(<<"k", "2">>)
  /\ statusCode = 502
  /\ fetchOutcome \in FetchErrors

\* The handler's locals as a fresh call has them
FreshLocals ==
  /\ busStopALatitude = NaN
  /\ busStopALongitude = NaN
  /\ busStopALineRefs = <<>>
  /\ routeData = EmptyTable
  /\ loadIdx = 1
  /\ ~fetchStarted
  /\ activities = <<>>
  /\ responseTimeMs = Null
  /\ kept = <<>>
  /\ filteredAndEnrichedBuses = <<>>
  /\ statusCode = 0
  /\ body = NoBody

\* C12: a later invocation on the same configuration, the same route files
\* and the same upstream outcome starts with nothing left from the earlier
\* one and ends the way the first invocation ended, with the same status
\* and the same body.
C12_SameResponseEveryTime ==
  invocation > 1 =>
    /\ pc = "start" => FreshLocals
    /\ Finished => /\ pc = earlier.pc
                   /\ statusCode = earlier.status
                   /\ body = earlier.body

\* C12 witness: a second invocation has answered 200 with a bus in the list
C12_Witness ==
  /\ invocation = 2
  /\ pc = "done"
  /\ statusCode = 200
  /\ body.list # <<>>
  /\ body = earlier.body

\* What the stages make of record i of the feed taken alone
PerRecord(acts, i) == Outcome(<<acts[i]>>)

RECURSIVE PerRecords(_, _)
\* The per-record outcomes of the records from position k on, in feed order
PerRecords(acts, k) ==
  IF k > Len(acts) THEN <<>>
  ELSE <<PerRecord(acts, k)>> \o PerRecords(acts, k + 1)

RECURSIVE ConcatResults(_, _)
\* The result lists of the outcomes rs[k..], one after the other
ConcatResults(rs, k) ==
  IF k > Len(rs) THEN <<>> ELSE rs[k].list \o ConcatResults(rs, k + 1)

\* The order of n records that puts the first record last
Rotation(n) == [k \in 1..n |-> IF k = n THEN 1 ELSE k + 1]

Permuted(acts, p) == [k \in 1..Len(acts) |-> acts[p[k]]]

RECURSIVE Rearranged(_, _, _, _)
\* The results in list, where list[j] came from record keptIdx[j], put in
\* the order p gives the records, from position k of that order on
Rearranged(list, keptIdx, p, k) ==
  IF k > Len(p) THEN <<>>
  ELSE LET js == {j \in 1..Len(keptIdx) : keptIdx[j] = p[k]}
       IN (IF js = {} THEN <<>> ELSE <<list[CHOOSE j \in js : TRUE]>>)
          \o Rearranged(list, keptIdx, p, k + 1)

\* C13: whether a record is kept and what it becomes depend on the record
\* alone (with the configuration, the route table and the response time):
\* the response list is the per-record results in feed order, whatever the
\* feed and so whatever its order, the handler throws exactly when some
\* record taken alone makes it throw, and when there are results, the feed
\* with its first record moved to the end gives the same status and the
\* same results, moved the same way.
C13_PermutationCommutes ==
  (Finished /\ fetchOutcome = "ok") =>
    LET n == Len(activities)
        rs == PerRecords(activities, 1)
    IN /\ statusCode = 200 <=> \A i \in 1..n : rs[i].status = 200
       /\ statusCode = 200 => body.list = ConcatResults(rs, 1)
       /\ (n >= 2 /\ body.list # <<>>) =>
            LET p == Rotation(n)
                o == Outcome(Permuted(activities, p))
            IN /\ o.status = statusCode
               /\ statusCode = 200 =>
                    o.list = Rearranged(body.list, kept, p, 1)

\* C13 witness: a feed whose first record is dropped and whose second is kept
C13_Witness ==
  /\ Responded200
  /\ Len(activities) = 2
  /\ kept = <<2>>
  /\ Len(body.list) = 1

\* C14: an invocation never ends by throwing: whatever the configuration,
\* the feed and the route files hold, the handler does not reject, and when
\* it has finished it has returned one response whose status is 200, 500
\* or 502.
C14_AlwaysOneResponse ==
  /\ pc # "threw"
  /\ pc = "done" => /\ statusCode \in {200, 500, 502}
                    /\ body.kind \in {"list", "message"}

\* What a route file gave is a sequence of route points
FileIsSequence(outcome) == outcome.st = "ok" /\ outcome.json.t = "arr"

\* C15: once the route files are loaded, the table entry of every requested
\* line is a sequence, the empty one when the file could not be read or
\* parsed or held something that is not a sequence; and an invocation with
\* such a file and a successful fetch ends with status 200, the buses of
\* that line having estimatedMinutesAway null.
C15_RouteEntryIsSequence ==
  /\ fetchStarted =>
       \A id \in LineSet(busStopALineRefs) :
         /\ routeData[id].t = "arr"
         /\ ~FileIsSequence(files[id]) => routeData[id] = JsonArr(<<>>)
  /\ (Finished /\ fetchOutcome = "ok") =>
       \A id \in LineSet(busStopALineRefs) :
         ~FileIsSequence(files[id]) =>
           /\ Responded200
           /\ \A j \in 1..Len(body.list) :
                body.list[j].lineRef = id =>
                  body.list[j].estimatedMinutesAway = Null

\* A stop coordinate that is set and does not parse to a finite number
CoordinateNotFinite ==
  /\ EnvPresent
  /\ \/ ~IsFiniteNum(parseFloat(env.BUS_STOP_A_LATITUDE.s))
     \/ ~IsFiniteNum(parseFloat(env.BUS_STOP_A_LONGITUDE.s))

\* C16: with a stop coordinate that is not a finite number (NaN or an
\* infinity) the invocation can only return status 500 with a {message}
\* body, and neither a route file read nor the fetch is ever started.
C16_NonFiniteCoordinate500 ==
  CoordinateNotFinite =>
    /\ pc \in {"start", "done"}
    /\ pc = "done" => statusCode = 500 /\ body.kind = "message"
    /\ ~fetchStarted
    /\ DOMAIN files = {}
    /\ stages = {}

\* loadRouteData has returned: every requested line has its table entry
LoadCompleted ==
  /\ busStopALineRefs # <<>>
  /\ loadIdx = Len(busStopALineRefs) + 1
  /\ DOMAIN routeData = LineSet(busStopALineRefs)

\* C17: the fetch starts only when the route load is complete; the filter
\* stage starts, and a BusResult or a result list exists, only when the
\* route load is complete and the fetch has succeeded; and when the fetch
\* fails, which is after the routes were loaded, no stage has run and the
\* response is the error message with nothing from the routes in it.
C17_StagesAfterLoadAndFetch ==
  /\ fetchStarted => LoadCompleted
  /\ (pc \in {"filter", "enrich"} \/ stages # {}) =>
       LoadCompleted /\ fetchOutcome = "ok"
  /\ (filteredAndEnrichedBuses # <<>> \/ body.kind = "list") =>
       LoadCompleted /\ fetchOutcome = "ok" /\ stages = {"filter", "enrich"}
  /\ "enrich" \in stages => "filter" \in stages
  /\ fetchOutcome \in FetchErrors =>
       /\ LoadCompleted
       /\ stages = {}
       /\ filteredAndEnrichedBuses = <<>>
       /\ pc = "done" /\ statusCode = 502
       /\ body = MessageBody("Failed to fetch or parse bus API data")

\* C17 witness: both stages have run after two route files were loaded and
\* the fetch succeeded, and a bus has an estimate taken from its route
C17_Witness ==
  /\ pc = "done"
  /\ stages = {"filter", "enrich"}
  /\ Cardinality(DOMAIN routeData) = 2
  /\ \E j \in 1..Len(body.list) : body.list[j].estimatedMinutesAway # Null

\* The feed with the recordedAt of record i replaced by a valid instant
WithValidInstant(acts, i) ==
  [acts EXCEPT ![i].RecordedAtTime = TStr("1970-01-01T00:01:00Z")]

\* C18: a record whose recordedAt is absent or does not parse changes
\* nothing but its own dataAgeMinutes: the invocation ends as it does for
\* the same feed with a valid instant in that record, with as many results,
\* the result of that record (when it is kept) equal in every field except
\* dataAgeMinutes, which is null, and every other result equal in every
\* field, dataAgeMinutes included.
C18_BadRecordedAtOnlyNullsAge ==
  (Finished /\ fetchOutcome = "ok") =>
    \A i \in 1..Len(activities) :
      ~ValidInstant(activities[i].RecordedAtTime) =>
        LET o == Outcome(WithValidInstant(activities, i))
        IN /\ o.status = statusCode
           /\ Len(o.list) = Len(body.list)
           /\ \A j \in 1..Len(body.list) :
                IF kept[j] = i
                THEN body.list[j] = [o.list[j] EXCEPT !.dataAgeMinutes = Null]
                ELSE body.list[j] = o.list[j]

\* C18 witness: a 200 response with two results, the first from a record
\* with an unusable recordedAt and a null age, the second with an age
C18_Witness ==
  /\ Responded200
  /\ kept = <<1, 2>>
  /\ ~ValidInstant(activities[1].RecordedAtTime)
  /\ body.list[1].dataAgeMinutes = Null
  /\ body.list[1].lineRef = T27
  /\ body.list[2].dataAgeMinutes # Null

\* A step that changes neither the route table nor the stop configuration
TableAndConfigKept ==
  /\ routeData' = routeData
  /\ busStopALatitude' = busStopALatitude
  /\ busStopALongitude' = busStopALongitude
  /\ busStopALineRefs' = busStopALineRefs
  /\ env' = env

\* C19: the steps of the filter and enrich stages, whether they end
\* normally or by a throw, leave the route table and the stop configuration
\* (coordinates and requested lines) as they were.
C19_StagesLeaveTableAndConfig ==
  [][(pc \in {"filter", "enrich"}) => TableAndConfigKept]_vars

\* C19 witness: both stages have run over two kept records whose line has
\* route points in the table, and the table still is what the files gave
C19_Witness ==
  /\ pc = "done"
  /\ stages = {"filter", "enrich"}
  /\ Len(kept) = 2
  /\ \A j \in 1..Len(body.list) :
       /\ body.list[j].estimatedMinutesAway # Null
       /\ routeData[body.list[j].lineRef].pts # <<>>
  /\ \A id \in DOMAIN routeData : routeData[id] = LoadOne(files[id])

\* No record of the fetched feed passes the filter, and none makes it throw
NoRecordKept ==
  \A i \in 1..Len(activities) :
    FilterCallback(activities[i], busStopALineRefs, busStopALatitude) = "drop"

\* C20: after a successful fetch (the configuration then is valid), a
\* document whose vehicle-activity list is absent or not a list counts as
\* an empty feed, and an invocation on a feed of which the filter keeps no
\* record, the empty one included, ends with status 200 and the empty list
\* as body, and in no other way.
C20_NothingKeptGivesEmpty200 ==
  fetchOutcome = "ok" =>
    /\ docShape \in {"absent", "not-list"} => activities = <<>>
    /\ (Finished /\ NoRecordKept) =>
         /\ pc = "done"
         /\ kept = <<>>
         /\ statusCode = 200
         /\ body = ListBody(<<>>)

\* C20 witness: status 200 with an empty list for a feed of two records
\* that the filter dropped
C20_Witness ==
  /\ Responded200
  /\ fetchOutcome = "ok"
  /\ Len(activities) = 2
  /\ NoRecordKept
  /\ body = ListBody(<<>>)

\* ------------------------------------------------------------------ C21
\* The handler of src/lambda/bus-filter.ts, as a function of the
\* configuration, the upstream outcome and the feed

RECURSIVE SrcMapRefs(_)
\* .map((ref) => ref.trim()): the identifiers keep their quotes
SrcMapRefs(ss) ==
  IF ss = <<>> THEN <<>> ELSE <<Trim(Head(ss))>> \o SrcMapRefs(Tail(ss))

\* busStopALineRefsStr.replace(...).split(',').map(...).filter(...)
SrcParseLineRefs(s) ==
  SelectSeq(SrcMapRefs(SplitComma(RemoveBrackets(s))), NonEmptyText)

\* The filter callback: the line identifier is compared untrimmed (an
\* object is simply not included), the direction must be 'inbound'
SrcFilterCallback(activity, lineRefs, stopLatitude) ==
  LET lineRef == LineRefOf(activity)
      directionRef == DirectionRefOf(activity)
      latitudeStr == LatitudeOf(activity)
      latitude == ParseFloatOf(latitudeStr)
      isTargetLine == lineRef.t = "str" /\ Includes(lineRefs, lineRef.s)
      isInbound == directionRef = Str(Inbound)
      isNorthOfStop == Gt(latitude, stopLatitude)
  IN IF ~JourneyOf(activity) \/ ~LocationOf(activity) \/ ~Truthy(lineRef)
        \/ ~Truthy(directionRef) \/ ~Truthy(latitudeStr)
     THEN "drop"
     ELSE IF isNaN(latitude) THEN "drop"
     ELSE IF isTargetLine /\ isInbound /\ isNorthOfStop THEN "keep"
     ELSE "drop"

RECURSIVE SrcFilterFrom(_, _, _, _, _)
\* Array.prototype.filter from index i on; acc holds the indices kept
SrcFilterFrom(acts, i, acc, lineRefs, stopLatitude) ==
  IF i > Len(acts) THEN acc
  ELSE SrcFilterFrom(acts, i + 1,
                     IF SrcFilterCallback(acts[i], lineRefs, stopLatitude)
                          = "keep"
                     THEN Append(acc, i) ELSE acc,
                     lineRefs, stopLatitude)

\* The map callback: { latitude, longitude }, or a throw
\* (location.Longitude[0] of a missing Longitude element)
SrcMapCallback(activity) ==
  IF activity.Longitude.t = "absent"
  THEN [threw |-> TRUE, bus |-> [latitude |-> Null, longitude |-> Null]]
  ELSE [threw |-> FALSE,
        bus |-> [latitude |-> JsonNumber(ParseFloatOf(activity.Latitude)),
                 longitude |-> JsonNumber(ParseFloatOf(activity.Longitude))]]

RECURSIVE SrcMapFrom(_, _, _, _)
\* Array.prototype.map over the kept activities, from position j on
SrcMapFrom(acts, keptIdx, j, acc) ==
  IF j > Len(keptIdx) THEN [threw |-> FALSE, buses |-> acc]
  ELSE LET r == SrcMapCallback(acts[keptIdx[j]])
       IN IF r.threw THEN [threw |-> TRUE, buses |-> <<>>]
          ELSE SrcMapFrom(acts, keptIdx, j + 1, Append(acc, r.bus))

SrcReturn(code, keptIdx, b) ==
  [status |-> code, kept |-> keptIdx, body |-> b]

\* handler of src/lambda/bus-filter.ts: the response (the message bodies
\* without their error field) and the indices of the activities kept
SrcHandler(e, fo, shape, acts) ==
  IF \/ Falsy(e.BUS_API_KEY)
     \/ Falsy(e.BUS_STOP_A_LATITUDE)
     \/ Falsy(e.BUS_STOP_A_LONGITUDE)
     \/ Falsy(e.BUS_STOP_A_LINEREFS)
  THEN SrcReturn(500, <<>>,
                 MessageBody("Missing required environment variables"))
  ELSE
    LET lat == parseFloat(e.BUS_STOP_A_LATITUDE.s)
        lon == parseFloat(e.BUS_STOP_A_LONGITUDE.s)
        lineRefs == SrcParseLineRefs(e.BUS_STOP_A_LINEREFS.s)
    IN IF isNaN(lat) \/ isNaN(lon)
       THEN SrcReturn(500, <<>>,
                      MessageBody("Invalid latitude or longitude in environment variables"))
       ELSE IF fo \in FetchErrors
       THEN SrcReturn(500, <<>>, MessageBody("Failed to process bus data"))
       ELSE IF shape # "list"
       THEN SrcReturn(200, <<>>, ListBody(<<>>))
       ELSE
         LET keptIdx == SrcFilterFrom(acts, 1, <<>>, lineRefs, lat)
             m == SrcMapFrom(acts, keptIdx, 1, <<>>)
         IN IF m.threw
            THEN SrcReturn(500, <<>>,
                           MessageBody("Failed to process bus data"))
            ELSE SrcReturn(200, keptIdx, ListBody(m.buses))

\* What the upstream gave in this run; when the deployed handler answered
\* before fetching, every upstream outcome is possible
UpstreamOutcomes ==
  IF fetchStarted
  THEN {[fo |-> fetchOutcome, shape |-> docShape, acts |-> activities]}
  ELSE {[fo |-> f, shape |-> "none", acts |-> <<>>] : f \in FetchErrors}
       \cup {[fo |-> "ok", shape |-> u.shape, acts |-> u.acts] :
               u \in Upstreams}

\* C21: on the same configuration, upstream outcome and feed, the deployed
\* handler and the handler of src/lambda/bus-filter.ts return the same
\* status code and keep the same activities in the same order
C21_HandlersEquivalent ==
  Finished =>
    \A o \in UpstreamOutcomes :
      LET s == SrcHandler(env, o.fo, o.shape, o.acts)
      IN /\ pc = "done"
         /\ s.status = statusCode
         /\ statusCode = 200 => s.kept = kept

====
